---- MODULE Spec2Model ----
(***************************************************************************)
(* A model of localcon.py: the command line (parse_arguments), main's      *)
(* dispatch and exception handling, the Serve handler (start_server with   *)
(* its CustomHandler.translate_path) and the Receive handler               *)
(* (download_file).                                                        *)
(*                                                                         *)
(* Strings the program computes on (request paths, URL prefixes, source    *)
(* URLs, the port argument) are sequences of characters. A command line    *)
(* is a sequence of tokens: the options, and "v" for an argument that is   *)
(* not an option; the text of a "v" is drawn when parse_arguments unpacks  *)
(* it. Exceptions are records [cls, errno]; a raise is followed through    *)
(* the except clauses of the frames it crosses.                            *)
(***************************************************************************)
EXTENDS Integers, Sequences, FiniteSets, TLC

VARIABLES
    argv,             \* sys.argv[1:], a sequence of tokens
    pc,               \* the statement the process is at
    mode,             \* parse_arguments' first result: "host", "receive", "None"
    port,             \* <<int(port_str)>>, or NoPort for None
    web_address,      \* the URL prefix (serve) as characters
    target_address,   \* the source URL (receive) as characters
    localhost_only,   \* args.localhost_only
    exit_code,        \* the process's exit status, NoExit while it runs
    output,           \* the lines printed, as message tags
    calls,            \* the handlers main has invoked, in order
    parseError,       \* "none", "argparse" (parser.error), "port" (line 118)
    raisedExc,        \* the last exception raised inside a handler, or NoExc
    caughtBy,         \* the frame whose except clause caught it, or "none"
    interruptedAt,    \* the pc at which a user interrupt arrived, or "none"
    boundHost,        \* the address the listener is bound to, or "none"
    local_ip,         \* get_local_ip()'s result, or "none"
    requestPath,      \* the last request path handed to translate_path
    resolved,         \* what translate_path handed to the base class
    destKind,         \* what target_fold is on disk
    filename,         \* os.path.basename(target_address), Unset before line 72
    fileContent,      \* target_path on disk: Absent, Old, or New(k), k blocks written
    prevContent,      \* content of target_path when download_file was entered
    networkRequests,  \* requests sent to the network by urlretrieve
    bodyLen,          \* blocks in the response body (0 before the headers)
    received          \* blocks of the body read so far

vars == <<argv, pc, mode, port, web_address, target_address, localhost_only,
          exit_code, output, calls, parseError, raisedExc, caughtBy,
          interruptedAt, boundHost, local_ip, requestPath, resolved, destKind,
          filename, fileContent, prevContent, networkRequests, bodyLen,
          received>>

serveVars == <<boundHost, local_ip, requestPath, resolved>>
receiveVars == <<destKind, filename, fileContent, prevContent,
                 networkRequests, bodyLen, received>>
argVars == <<argv, mode, port, web_address, target_address, localhost_only,
             parseError>>

(***************************************************************************)
(* Bounds of the model.                                                    *)
(***************************************************************************)
MaxArgs == 7        \* longest command line
MaxPathLen == 4     \* longest request path
MaxPrefixLen == 2   \* longest URL prefix
MaxUrlLen == 4      \* longest source URL after "http://"
MaxBlocks == 2      \* most blocks in a response body

NoExit == 0 - 1     \* exit_code while the process runs
NoPort == <<>>      \* port is None; <<n>> is the integer n
Unset == <<"<unset>">>
NoExc == [cls |-> "none", errno |-> 0]
Unknown == <<"unknown", 0>>
Absent == <<"absent", 0>>
Old == <<"old", 0>>
New(k) == <<"new", k>>

BoundedSeq(S, n) == UNION {[1..k -> S] : k \in 0..n}

Last(s) == s[Len(s)]

(***************************************************************************)
(* Python's exception classes and the except clause that catches one.      *)
(***************************************************************************)
Parent(cls) ==
    CASE cls = "KeyboardInterrupt" -> "BaseException"
      [] cls = "Exception" -> "BaseException"
      [] cls = "OSError" -> "Exception"
      [] cls = "ValueError" -> "Exception"
      [] cls = "ArithmeticError" -> "Exception"
      [] cls = "OverflowError" -> "ArithmeticError"
      [] cls = "PermissionError" -> "OSError"
      [] cls = "FileNotFoundError" -> "OSError"
      [] cls = "FileExistsError" -> "OSError"
      [] cls = "NotADirectoryError" -> "OSError"
      [] cls = "IsADirectoryError" -> "OSError"
      [] cls = "ConnectionResetError" -> "OSError"
      [] cls = "gaierror" -> "OSError"
      [] cls = "URLError" -> "OSError"
      [] cls = "HTTPError" -> "URLError"
      [] cls = "ContentTooShortError" -> "URLError"
      [] OTHER -> "BaseException"

RECURSIVE IsSubclass(_, _)
IsSubclass(cls, base) ==
    IF cls = base THEN TRUE
    ELSE IF cls = "BaseException" THEN FALSE
    ELSE IsSubclass(Parent(cls), base)

Exc(cls, errno) == [cls |-> cls, errno |-> errno]

\* The index of the first clause of `clauses` that catches exc, 0 when none.
RECURSIVE FirstMatchFrom(_, _, _)
FirstMatchFrom(clauses, exc, i) ==
    IF i > Len(clauses) THEN 0
    ELSE IF IsSubclass(exc.cls, clauses[i]) THEN i
    ELSE FirstMatchFrom(clauses, exc, i + 1)

FirstMatch(clauses, exc) == FirstMatchFrom(clauses, exc, 1)

(***************************************************************************)
(* int(port_str), line 117: an optional sign and at least one decimal      *)
(* digit; anything else raises ValueError. <<n>> or, for ValueError, <<>>. *)
(***************************************************************************)
DigitValue(c) ==
    CASE c = "0" -> 0 [] c = "1" -> 1 [] c = "2" -> 2 [] c = "3" -> 3
      [] c = "4" -> 4 [] c = "5" -> 5 [] c = "6" -> 6 [] c = "7" -> 7
      [] c = "8" -> 8 [] c = "9" -> 9 [] OTHER -> 0 - 1

RECURSIVE DigitsToInt(_, _, _)
DigitsToInt(s, i, acc) ==
    IF i > Len(s) THEN <<acc>>
    ELSE IF DigitValue(s[i]) < 0 THEN <<>>
    ELSE DigitsToInt(s, i + 1, 10 * acc + DigitValue(s[i]))

PyInt(s) ==
    IF Len(s) = 0 THEN <<>>
    ELSE IF s[1] = "-" THEN
        IF Len(s) = 1 THEN <<>>
        ELSE LET m == DigitsToInt(Tail(s), 1, 0)
             IN IF m = <<>> THEN <<>> ELSE <<0 - m[1]>>
    ELSE DigitsToInt(s, 1, 0)

(***************************************************************************)
(* argparse, as configured on lines 92-111: -s/--serve takes 3 arguments   *)
(* and -r/--receive 2, in a required mutually exclusive group;             *)
(* --localhost-only ("-L") is a flag; -h/--help is argparse's default.     *)
(* parse_args reads the command line left to right. -h prints the help and *)
(* exits 0 where it is met. An option with too few arguments after it, or  *)
(* one that conflicts with the group's other option, is an error where it  *)
(* is met. An argument that nothing consumes ("v" outside an option's      *)
(* arguments) and an unknown option ("-x") are kept as extras. At the end  *)
(* a missing group or any extra is an error. parser.error exits with       *)
(* status 2.                                                               *)
(***************************************************************************)
Tokens == {"-s", "-r", "-h", "-L", "-x", "v"}

NArgs(opt) == IF opt = "-s" THEN 3 ELSE 2

\* Do n arguments (not options) follow position i of a?
HasArgs(a, i, n) ==
    /\ i + n <= Len(a)
    /\ \A k \in 1..n : a[i + k] = "v"

ParseState0 == [serve |-> FALSE, receive |-> FALSE, localhost_only |-> FALSE,
                extras |-> FALSE]

\* add_mutually_exclusive_group, line 95: opt is met after the group's
\* other option.
GroupConflictNever(opt, st) == FALSE

GroupConflict(opt, st) ==
    IF opt = "-s" THEN st.receive ELSE st.serve

\* The end of the command line: the group is required (line 95), and
\* parse_args (line 111) accepts no extras.
ArgparseEndNotRequired(st) ==
    IF st.extras THEN "error" ELSE "ok"

ArgparseEnd(st) ==
    IF ~st.serve /\ ~st.receive THEN "error"
    ELSE IF st.extras THEN "error"
    ELSE "ok"

RECURSIVE ArgparseFrom(_, _, _)
ArgparseFrom(a, i, st) ==
    IF i > Len(a) THEN [kind |-> ArgparseEnd(st), st |-> st]
    ELSE IF a[i] = "-h" THEN [kind |-> "help", st |-> st]
    ELSE IF a[i] = "-L" THEN
        ArgparseFrom(a, i + 1, [st EXCEPT !.localhost_only = TRUE])
    ELSE IF a[i] = "v" \/ a[i] = "-x" THEN
        ArgparseFrom(a, i + 1, [st EXCEPT !.extras = TRUE])
    ELSE IF ~HasArgs(a, i, NArgs(a[i])) THEN [kind |-> "error", st |-> st]
    ELSE IF GroupConflict(a[i], st) THEN [kind |-> "error", st |-> st]
    ELSE IF a[i] = "-s" THEN
        ArgparseFrom(a, i + 4, [st EXCEPT !.serve = TRUE])
    ELSE
        ArgparseFrom(a, i + 3, [st EXCEPT !.receive = TRUE])

ParseArgs(a) == ArgparseFrom(a, 1, ParseState0)

ArgparseErrorStatus == 2
HelpStatus == 0
PortErrorStatus == 1

(***************************************************************************)
(* The texts an argument may hold.                                         *)
(***************************************************************************)
PortStrings == { <<"a">>, <<"8", "0">>, <<"-", "1">>,
                 <<"7", "0", "0", "0", "0">> }
PathChars == {"/", "a", "b"}
Paths == BoundedSeq(PathChars, MaxPathLen)
Prefixes == BoundedSeq(PathChars, MaxPrefixLen)
SomePaths == { <<>>, <<"/", "a", "/", "a">> }
SomePrefixes == { <<>>, <<"/", "a">> }

Scheme == <<"http:", "/", "/">>
UrlChars == {"/", "?", "#", "a"}
URLs == { pre \o rest : pre \in {<<>>, Scheme},
                        rest \in BoundedSeq(UrlChars, MaxUrlLen) }
SomeURLs == { Scheme \o <<"a", "/", "a">>, Scheme \o <<"a", "/">>,
              Scheme \o <<"a">>, <<"a">> }

(***************************************************************************)
(* The state when the interpreter enters main().                           *)
(***************************************************************************)
Running ==
    /\ mode = "unset"
    /\ port = NoPort
    /\ web_address = Unset
    /\ target_address = Unset
    /\ localhost_only = FALSE
    /\ exit_code = NoExit
    /\ output = <<>>
    /\ calls = <<>>
    /\ parseError = "none"
    /\ raisedExc = NoExc
    /\ caughtBy = "none"
    /\ interruptedAt = "none"
    /\ boundHost = "none"
    /\ local_ip = "none"
    /\ requestPath = Unset
    /\ resolved = Unset
    /\ destKind = "unknown"
    /\ filename = Unset
    /\ fileContent = Unknown
    /\ prevContent = Unknown
    /\ networkRequests = 0
    /\ bodyLen = 0
    /\ received = 0

Init ==
    /\ \E n \in 0..MaxArgs : argv \in [1..n -> Tokens]
    /\ pc = "parse_arguments"
    /\ Running

\* sys.exit(status), or the interpreter ending after main returns.
Exit(status, lines) ==
    /\ pc' = "exited"
    /\ exit_code' = status
    /\ output' = output \o lines

(***************************************************************************)
(* parse_arguments(), lines 90-128, called on line 132.                    *)
(***************************************************************************)
ParseArguments(portPool, prefixPool, urlPool) ==
    /\ pc = "parse_arguments"
    /\ LET r == ParseArgs(argv) IN
       CASE r.kind = "help" ->
              /\ Exit(HelpStatus, <<"help">>)
              /\ UNCHANGED <<mode, port, web_address, target_address,
                             localhost_only, parseError>>
         [] r.kind = "error" ->
              /\ Exit(ArgparseErrorStatus, <<"usage">>)
              /\ parseError' = "argparse"
              /\ UNCHANGED <<mode, port, web_address, target_address,
                             localhost_only>>
         [] r.kind = "ok" /\ r.st.serve ->
              \E port_str \in portPool, w \in prefixPool :
                 IF PyInt(port_str) = <<>> THEN
                    /\ Exit(PortErrorStatus, <<"port_must_be_a_number">>)
                    /\ parseError' = "port"
                    /\ UNCHANGED <<mode, port, web_address, target_address,
                                   localhost_only>>
                 ELSE
                    /\ mode' = "host"
                    /\ port' = PyInt(port_str)
                    /\ web_address' = w
                    /\ localhost_only' = r.st.localhost_only
                    /\ pc' = "main"
                    /\ UNCHANGED <<target_address, parseError, exit_code,
                                   output>>
         [] r.kind = "ok" /\ ~r.st.serve /\ r.st.receive ->
              \E u \in urlPool :
                 /\ mode' = "receive"
                 /\ target_address' = u
                 /\ localhost_only' = r.st.localhost_only
                 /\ pc' = "main"
                 /\ UNCHANGED <<port, web_address, parseError, exit_code,
                                output>>
         [] OTHER ->
              /\ mode' = "None"
              /\ pc' = "main"
              /\ UNCHANGED <<port, web_address, target_address,
                             localhost_only, parseError, exit_code, output>>
    /\ UNCHANGED <<argv, calls, raisedExc, caughtBy, interruptedAt>>
    /\ UNCHANGED serveVars
    /\ UNCHANGED receiveVars


(***************************************************************************)
(* Exceptions raised inside a handler: the handler's except clauses, then  *)
(* main's (lines 141-146).                                                 *)
(***************************************************************************)
GetLocalIpClausesBare == <<"BaseException">>

GetLocalIpClauses == <<"Exception">>
StartServerClauses == <<"PermissionError", "OSError">>
DownloadFileClauses == <<"URLError", "PermissionError", "ValueError">>
MainClauses == <<"KeyboardInterrupt", "Exception">>

HandlerClauses(h) ==
    IF h = "start_server" THEN StartServerClauses ELSE DownloadFileClauses

\* The line the matching except clause prints.
HandlerMessage(h, exc) ==
    LET k == FirstMatch(HandlerClauses(h), exc) IN
    IF h = "start_server" THEN
        IF k = 1 THEN "permission_denied_directory"
        ELSE IF exc.errno = 98 \/ exc.errno = 10048 THEN "port_in_use"
        ELSE "could_not_start_server"
    ELSE
        IF k = 1 THEN "could_not_download"
        ELSE IF k = 2 THEN "permission_denied_directory"
        ELSE "value_error"

MainInterruptStatus == 0
MainErrorStatus == 1
MainReturnStatusFailure == 0 + 1
MainReturnStatus == 0
UncaughtStatus == 1

ServePcs == {"chdir", "bind", "get_local_ip", "announce", "serve_forever"}
ReceivePcs == {"mkdir", "basename", "urlopen", "open_file", "read_block"}
HandlerPcs == ServePcs \cup ReceivePcs

HandlerAt(p) == IF p \in ServePcs THEN "start_server" ELSE "download_file"

\* exc is raised by the statement at pc, in handler HandlerAt(pc).
Raise(exc) ==
    LET h == HandlerAt(pc)
        m == FirstMatch(MainClauses, exc)
    IN
    /\ raisedExc' = exc
    /\ IF FirstMatch(HandlerClauses(h), exc) > 0 THEN
          /\ caughtBy' = h
          /\ output' = Append(output, HandlerMessage(h, exc))
          /\ pc' = "handler_returned"
          /\ UNCHANGED exit_code
       ELSE IF m = 1 THEN
          /\ caughtBy' = "main"
          /\ Exit(MainInterruptStatus, <<"terminated_by_user">>)
       ELSE IF m = 2 THEN
          /\ caughtBy' = "main"
          /\ Exit(MainErrorStatus, <<"unexpected_error">>)
       ELSE
          /\ caughtBy' = "none"
          /\ Exit(UncaughtStatus, <<"traceback">>)

(***************************************************************************)
(* main(), lines 136-140: the dispatch on mode.                            *)
(***************************************************************************)
DestKinds == {"missing", "dir", "readonly_dir", "file", "denied"}

\* What target_path may hold in a destination of kind d.
ContentsIn(d) ==
    IF d \in {"dir", "readonly_dir"} THEN {Absent, Old} ELSE {Absent}

Dispatch ==
    /\ pc = "main"
    /\ IF mode = "host" THEN
          /\ calls' = Append(calls, "start_server")
          /\ pc' = "chdir"
          /\ UNCHANGED receiveVars
       ELSE IF mode = "receive" THEN
          /\ calls' = Append(calls, "download_file")
          /\ pc' = "mkdir"
          /\ \E d \in DestKinds : \E c \in ContentsIn(d) :
                /\ destKind' = d
                /\ fileContent' = c
                /\ prevContent' = c
          /\ UNCHANGED <<filename, networkRequests, bodyLen, received>>
       ELSE
          /\ pc' = "handler_returned"
          /\ UNCHANGED calls
          /\ UNCHANGED receiveVars
    /\ UNCHANGED <<exit_code, output, raisedExc, caughtBy, interruptedAt>>
    /\ UNCHANGED argVars
    /\ UNCHANGED serveVars

\* main() returns (line 149): the interpreter exits with status 0.
MainReturn ==
    /\ pc = "handler_returned"
    /\ Exit(MainReturnStatus, <<>>)
    /\ UNCHANGED <<calls, raisedExc, caughtBy, interruptedAt>>
    /\ UNCHANGED argVars
    /\ UNCHANGED serveVars
    /\ UNCHANGED receiveVars

(***************************************************************************)
(* start_server(), lines 28-62.                                            *)
(***************************************************************************)
\* os.chdir(fold_address), line 32.
Chdir ==
    /\ pc = "chdir"
    /\ \/ /\ pc' = "bind"
          /\ UNCHANGED <<exit_code, output, raisedExc, caughtBy>>
       \/ \E e \in { Exc("PermissionError", 13), Exc("FileNotFoundError", 2),
                     Exc("NotADirectoryError", 20) } : Raise(e)
    /\ UNCHANGED <<calls, interruptedAt>>
    /\ UNCHANGED argVars
    /\ UNCHANGED serveVars
    /\ UNCHANGED receiveVars

\* Line 42.
HostAlwaysWildcard(lo) == "0.0.0.0"

Host(lo) == IF lo THEN "localhost" ELSE "0.0.0.0"

\* HTTPServer((host, port), CustomHandler), line 43: socket.bind refuses a
\* port outside 0..65535 with OverflowError; the other failures are OSErrors.
Bind ==
    /\ pc = "bind"
    /\ IF port[1] < 0 \/ port[1] > 65535 THEN
          /\ Raise(Exc("OverflowError", 0))
          /\ UNCHANGED boundHost
       ELSE
          \/ /\ boundHost' = Host(localhost_only)
             /\ pc' = "get_local_ip"
             /\ UNCHANGED <<exit_code, output, raisedExc, caughtBy>>
          \/ /\ \E e \in { Exc("OSError", 98), Exc("OSError", 10048),
                           Exc("PermissionError", 13), Exc("gaierror", 0 - 2),
                           Exc("OSError", 99) } : Raise(e)
             /\ UNCHANGED boundHost
    /\ UNCHANGED <<calls, interruptedAt, local_ip, requestPath, resolved>>
    /\ UNCHANGED argVars
    /\ UNCHANGED receiveVars

\* get_local_ip(), lines 15-25, called on line 46. exc is what the socket
\* calls raise, NoExc when they succeed.
GetLocalIpResult(exc) ==
    IF exc = NoExc THEN "lan"
    ELSE IF FirstMatch(GetLocalIpClauses, exc) > 0 THEN "127.0.0.1"
    ELSE "raise"

GetLocalIp ==
    /\ pc = "get_local_ip"
    /\ \E exc \in { NoExc, Exc("OSError", 101) } :
          IF GetLocalIpResult(exc) = "raise" THEN
             /\ Raise(exc)
             /\ UNCHANGED local_ip
          ELSE
             /\ local_ip' = GetLocalIpResult(exc)
             /\ pc' = "announce"
             /\ UNCHANGED <<exit_code, output, raisedExc, caughtBy>>
    /\ UNCHANGED <<calls, interruptedAt, boundHost, requestPath, resolved>>
    /\ UNCHANGED argVars
    /\ UNCHANGED receiveVars

\* The prints of lines 48-52.
Announce ==
    /\ pc = "announce"
    /\ output' = output \o <<"server_started", "local_access">>
                   \o (IF localhost_only THEN <<>> ELSE <<"lan_access">>)
                   \o <<"press_ctrl_c">>
    /\ pc' = "serve_forever"
    /\ UNCHANGED <<exit_code, raisedExc, caughtBy, calls, interruptedAt>>
    /\ UNCHANGED argVars
    /\ UNCHANGED serveVars
    /\ UNCHANGED receiveVars

(***************************************************************************)
(* str.replace(old, '', 1), line 38: the leftmost occurrence of old is cut *)
(* out of s; s is returned as it is when old does not occur in it.         *)
(***************************************************************************)
MatchAt(s, old, i) ==
    /\ i + Len(old) - 1 <= Len(s)
    /\ \A k \in 1..Len(old) : s[i + k - 1] = old[k]

\* str.find: the least index at which old occurs in s, 0 when it does not.
RECURSIVE FindFrom(_, _, _)
FindFrom(s, old, i) ==
    IF i + Len(old) - 1 > Len(s) THEN 0
    ELSE IF MatchAt(s, old, i) THEN i
    ELSE FindFrom(s, old, i + 1)

\* str.removeprefix in place of str.replace.
ReplaceLeading(s, old) ==
    IF MatchAt(s, old, 1) THEN SubSeq(s, 1 + Len(old), Len(s)) ELSE s

ReplaceFirst(s, old) ==
    LET i == FindFrom(s, old, 1) IN
    IF i = 0 THEN s
    ELSE SubSeq(s, 1, i - 1) \o SubSeq(s, i + Len(old), Len(s))

\* CustomHandler.translate_path, lines 36-39: the path handed to
\* SimpleHTTPRequestHandler.translate_path.
TranslatePath(path) == ReplaceFirst(path, web_address)

\* server.serve_forever(), line 54: one request is handled.
HandleRequest(pathPool) ==
    /\ pc = "serve_forever"
    /\ \E p \in pathPool :
          /\ requestPath' = p
          /\ resolved' = TranslatePath(p)
    /\ UNCHANGED <<pc, exit_code, output, raisedExc, caughtBy, calls,
                   interruptedAt, boundHost, local_ip>>
    /\ UNCHANGED argVars
    /\ UNCHANGED receiveVars


(***************************************************************************)
(* download_file(), lines 65-88.                                           *)
(***************************************************************************)
\* Path(target_fold).mkdir(parents=True, exist_ok=True), line 69.
Mkdir ==
    /\ pc = "mkdir"
    /\ CASE destKind = "file" ->
              /\ Raise(Exc("FileExistsError", 17))
              /\ UNCHANGED destKind
         [] destKind = "denied" ->
              /\ Raise(Exc("PermissionError", 13))
              /\ UNCHANGED destKind
         [] OTHER ->
              /\ destKind' = IF destKind = "missing" THEN "dir" ELSE destKind
              /\ pc' = "basename"
              /\ UNCHANGED <<exit_code, output, raisedExc, caughtBy>>
    /\ UNCHANGED <<calls, interruptedAt, filename, fileContent, prevContent,
                   networkRequests, bodyLen, received>>
    /\ UNCHANGED argVars
    /\ UNCHANGED serveVars

\* str.rfind('/'): the greatest index of "/" in s, 0 when there is none.
RECURSIVE LastSlash(_, _)
LastSlash(s, i) ==
    IF i = 0 THEN 0
    ELSE IF s[i] = "/" THEN i
    ELSE LastSlash(s, i - 1)

\* os.path.basename(p), line 72: what follows the last "/" of the string.
Basename(s) == SubSeq(s, LastSlash(s, Len(s)) + 1, Len(s))

\* Lines 72-77 without the test of line 73.
DeriveFilenameUnchecked ==
    /\ pc = "basename"
    /\ filename' = Basename(target_address)
    /\ pc' = "urlopen"
    /\ UNCHANGED <<exit_code, output, raisedExc, caughtBy>>
    /\ UNCHANGED <<calls, interruptedAt, destKind, fileContent, prevContent,
                   networkRequests, bodyLen, received>>
    /\ UNCHANGED argVars
    /\ UNCHANGED serveVars

\* Lines 72-77.
DeriveFilename ==
    /\ pc = "basename"
    /\ filename' = Basename(target_address)
    /\ IF Basename(target_address) = <<>> THEN
          Raise(Exc("ValueError", 0))
       ELSE
          /\ pc' = "urlopen"
          /\ UNCHANGED <<exit_code, output, raisedExc, caughtBy>>
    /\ UNCHANGED <<calls, interruptedAt, destKind, fileContent, prevContent,
                   networkRequests, bodyLen, received>>
    /\ UNCHANGED argVars
    /\ UNCHANGED serveVars

\* urllib's view of the URL: its scheme, and the host after "//".
HasScheme(u) == Len(u) >= 1 /\ u[1] = "http:"

RECURSIVE HostEnd(_, _)
HostEnd(u, i) ==
    IF i > Len(u) THEN i
    ELSE IF u[i] \in {"/", "?", "#"} THEN i
    ELSE HostEnd(u, i + 1)

UrlHost(u) ==
    IF Len(u) >= 3 /\ u[2] = "/" /\ u[3] = "/"
    THEN SubSeq(u, 4, HostEnd(u, 4) - 1)
    ELSE <<>>

\* urllib.request.urlretrieve(target_address, target_path), line 80: the
\* URL is opened first. A URL without a scheme is a ValueError and one
\* without a host a URLError, both before anything is sent.
UrlOpen ==
    /\ pc = "urlopen"
    /\ IF ~HasScheme(target_address) THEN
          /\ Raise(Exc("ValueError", 0))
          /\ UNCHANGED <<networkRequests, bodyLen>>
       ELSE IF UrlHost(target_address) = <<>> THEN
          /\ Raise(Exc("URLError", 0))
          /\ UNCHANGED <<networkRequests, bodyLen>>
       ELSE
          /\ networkRequests' = networkRequests + 1
          /\ \/ /\ \E e \in { Exc("URLError", 111), Exc("HTTPError", 404) } :
                      Raise(e)
                /\ UNCHANGED bodyLen
             \/ /\ bodyLen' \in 1..MaxBlocks
                /\ pc' = "open_file"
                /\ UNCHANGED <<exit_code, output, raisedExc, caughtBy>>
    /\ UNCHANGED <<calls, interruptedAt, destKind, filename, fileContent,
                   prevContent, received>>
    /\ UNCHANGED argVars
    /\ UNCHANGED serveVars

\* urlretrieve, once the response headers are in: open(target_path, 'wb'),
\* which creates the file or truncates the one that is there.
OpenFile ==
    /\ pc = "open_file"
    /\ IF destKind = "readonly_dir" THEN
          /\ Raise(Exc("PermissionError", 13))
          /\ UNCHANGED fileContent
       ELSE
          /\ fileContent' = New(0)
          /\ pc' = "read_block"
          /\ UNCHANGED <<exit_code, output, raisedExc, caughtBy>>
    /\ UNCHANGED <<calls, interruptedAt, destKind, filename, prevContent,
                   networkRequests, bodyLen, received>>
    /\ UNCHANGED argVars
    /\ UNCHANGED serveVars

\* urlretrieve's loop: a block is read and written to the file at once. The
\* connection may be reset under the read (an OSError), or end early, which
\* urlretrieve reports as ContentTooShortError.
ReadBlock ==
    /\ pc = "read_block"
    /\ received < bodyLen
    /\ \/ /\ received' = received + 1
          /\ fileContent' = New(received + 1)
          /\ UNCHANGED <<pc, exit_code, output, raisedExc, caughtBy>>
       \/ /\ \E e \in { Exc("ConnectionResetError", 104),
                        Exc("ContentTooShortError", 0) } : Raise(e)
          /\ UNCHANGED <<received, fileContent>>
    /\ UNCHANGED <<calls, interruptedAt, destKind, filename, prevContent,
                   networkRequests, bodyLen>>
    /\ UNCHANGED argVars
    /\ UNCHANGED serveVars

\* urlretrieve returns; line 81 prints the confirmation.
FinishDownload ==
    /\ pc = "read_block"
    /\ received = bodyLen
    /\ output' = Append(output, "downloaded")
    /\ pc' = "handler_returned"
    /\ UNCHANGED <<exit_code, raisedExc, caughtBy, calls, interruptedAt>>
    /\ UNCHANGED argVars
    /\ UNCHANGED serveVars
    /\ UNCHANGED receiveVars

(***************************************************************************)
(* The user's interrupt (SIGINT): Python raises KeyboardInterrupt in the   *)
(* statement that is running. Inside get_local_ip it first meets that      *)
(* function's except clause.                                               *)
(***************************************************************************)
KeyboardInterrupt == Exc("KeyboardInterrupt", 0)

Interrupt ==
    /\ pc \in HandlerPcs
    /\ interruptedAt' = pc
    /\ IF pc = "get_local_ip" /\ GetLocalIpResult(KeyboardInterrupt) # "raise"
       THEN
          /\ local_ip' = GetLocalIpResult(KeyboardInterrupt)
          /\ pc' = "announce"
          /\ UNCHANGED <<exit_code, output, raisedExc, caughtBy>>
       ELSE
          /\ Raise(KeyboardInterrupt)
          /\ UNCHANGED local_ip
    /\ UNCHANGED <<calls, boundHost, requestPath, resolved>>
    /\ UNCHANGED argVars
    /\ UNCHANGED receiveVars

(***************************************************************************)
(* The program from its command line.                                      *)
(***************************************************************************)
Next ==
    \/ ParseArguments(PortStrings, SomePrefixes, SomeURLs)
    \/ Dispatch
    \/ MainReturn
    \/ Chdir
    \/ Bind
    \/ GetLocalIp
    \/ Announce
    \/ HandleRequest(SomePaths)
    \/ Mkdir
    \/ DeriveFilename
    \/ UrlOpen
    \/ OpenFile
    \/ ReadBlock
    \/ FinishDownload
    \/ Interrupt

Spec == Init /\ [][Next]_vars

(***************************************************************************)
(* The Serve handler from the moment it serves, for every URL prefix and   *)
(* request path within the bounds.                                         *)
(***************************************************************************)
InitServe ==
    /\ argv = <<"-s", "v", "v", "v">>
    /\ pc = "serve_forever"
    /\ mode = "host"
    /\ port = <<80>>
    /\ web_address \in Prefixes
    /\ target_address = Unset
    /\ localhost_only = FALSE
    /\ exit_code = NoExit
    /\ output = <<"server_started", "local_access", "lan_access",
                  "press_ctrl_c">>
    /\ calls = <<"start_server">>
    /\ parseError = "none"
    /\ raisedExc = NoExc
    /\ caughtBy = "none"
    /\ interruptedAt = "none"
    /\ boundHost = Host(localhost_only)
    /\ local_ip = "lan"
    /\ requestPath = Unset
    /\ resolved = Unset
    /\ destKind = "unknown"
    /\ filename = Unset
    /\ fileContent = Unknown
    /\ prevContent = Unknown
    /\ networkRequests = 0
    /\ bodyLen = 0
    /\ received = 0

NextServe ==
    \/ HandleRequest(Paths)
    \/ Interrupt

SpecServe == InitServe /\ [][NextServe]_vars

(***************************************************************************)
(* The Receive handler from its entry, for every source URL within the     *)
(* bounds and every kind of destination.                                   *)
(***************************************************************************)
InitReceive ==
    /\ argv = <<"-r", "v", "v">>
    /\ pc = "mkdir"
    /\ mode = "receive"
    /\ port = NoPort
    /\ web_address = Unset
    /\ target_address \in URLs
    /\ localhost_only = FALSE
    /\ exit_code = NoExit
    /\ output = <<>>
    /\ calls = <<"download_file">>
    /\ parseError = "none"
    /\ raisedExc = NoExc
    /\ caughtBy = "none"
    /\ interruptedAt = "none"
    /\ boundHost = "none"
    /\ local_ip = "none"
    /\ requestPath = Unset
    /\ resolved = Unset
    /\ destKind \in DestKinds
    /\ fileContent \in ContentsIn(destKind)
    /\ prevContent = fileContent
    /\ filename = Unset
    /\ networkRequests = 0
    /\ bodyLen = 0
    /\ received = 0

NextReceive ==
    \/ Mkdir
    \/ DeriveFilename
    \/ UrlOpen
    \/ OpenFile
    \/ ReadBlock
    \/ FinishDownload
    \/ Interrupt
    \/ MainReturn

SpecReceive == InitReceive /\ [][NextReceive]_vars

(***************************************************************************)
(* The claims.                                                             *)
(***************************************************************************)
Supplied(opt) == \E i \in DOMAIN argv : argv[i] = opt
ExactlyOneVerb == Supplied("-s") # Supplied("-r")
VerbHandler == IF Supplied("-s") THEN "start_server" ELSE "download_file"
Handlers == {"start_server", "download_file"}
NothingDone ==
    /\ calls = <<>>
    /\ boundHost = "none"
    /\ destKind = "unknown"
    /\ networkRequests = 0

\* C1: the path translate_path resolves is the request path with exactly
\* the leftmost occurrence of the URL prefix cut out, wherever it lies; a
\* later occurrence stays, and a path without the prefix is unchanged.
C1_FirstOccurrenceRemoved ==
    requestPath # Unset =>
        LET p == requestPath
            w == web_address
            occ == { i \in 1..(Len(p) + 1) :
                        /\ i + Len(w) - 1 <= Len(p)
                        /\ SubSeq(p, i, i + Len(w) - 1) = w }
        IN IF occ = {} THEN resolved = p
           ELSE LET i == CHOOSE k \in occ : \A j \in occ : k <= j
                IN resolved = SubSeq(p, 1, i - 1)
                                \o SubSeq(p, i + Len(w), Len(p))

\* A request whose first occurrence of the prefix is not at the start and
\* which holds a second one.
C1_Witness ==
    /\ web_address = <<"a">>
    /\ requestPath = <<"/", "a", "b", "a">>
    /\ resolved = <<"/", "b", "a">>

\* C2, as stated: a handler is invoked only when exactly one of --serve and
\* --receive was supplied, and then that handler alone, once; with both or
\* neither the process ends with a non-zero status and no handler invoked.
C2_Original ==
    /\ calls # <<>> => ExactlyOneVerb /\ calls = <<VerbHandler>>
    /\ (~ExactlyOneVerb /\ pc # "parse_arguments") =>
          pc = "exited" /\ calls = <<>> /\ exit_code # 0

\* C2, amended: as stated, except that with both or neither the status is
\* non-zero unless -h/--help was met before the error, and then the help is
\* printed and the status is 0.
C2_OneHandlerOrUsageError ==
    /\ calls # <<>> => ExactlyOneVerb /\ calls = <<VerbHandler>>
    /\ (~ExactlyOneVerb /\ pc # "parse_arguments") =>
          /\ pc = "exited"
          /\ calls = <<>>
          /\ \/ exit_code # 0
             \/ Supplied("-h") /\ output = <<"help">>
    /\ (~ExactlyOneVerb /\ ~Supplied("-h") /\ pc # "parse_arguments") =>
          exit_code # 0

\* Both verbs with all their arguments: a usage error, no handler.
C2_Witness ==
    /\ pc = "exited"
    /\ Supplied("-s") /\ Supplied("-r") /\ ~Supplied("-h")
    /\ Len(argv) = 7
    /\ exit_code = 2
    /\ calls = <<>>

\* An option of the command line with too few arguments after it.
MissingValue ==
    \E i \in DOMAIN argv :
        /\ argv[i] \in {"-s", "-r"}
        /\ ~HasArgs(argv, i, NArgs(argv[i]))

\* C3, as stated: every argument-parsing error ends the process with
\* status 1 before any Serve or Receive action.
C3_Original ==
    parseError # "none" => pc = "exited" /\ exit_code = 1 /\ NothingDone

\* C3, amended: every argument-parsing error ends the process with a
\* non-zero status before any Serve or Receive action: 2 when argparse
\* rejects the command line (neither verb, both verbs, a missing value, an
\* unknown argument), 1 when the port is not an integer.
C3_ParseErrorsExitNonZero ==
    /\ parseError # "none" =>
          /\ pc = "exited"
          /\ NothingDone
          /\ exit_code = IF parseError = "port" THEN 1 ELSE 2
    /\ ( /\ pc # "parse_arguments"
         /\ ~Supplied("-h")
         /\ \/ ~Supplied("-s") /\ ~Supplied("-r")
            \/ Supplied("-s") /\ Supplied("-r")
            \/ Supplied("-x")
            \/ MissingValue ) =>
          pc = "exited" /\ exit_code = 2 /\ NothingDone
    /\ "port_must_be_a_number" \in { output[i] : i \in DOMAIN output } =>
          pc = "exited" /\ exit_code = 1 /\ NothingDone

\* No verb at all: argparse's usage error.
C3_Witness ==
    /\ pc = "exited"
    /\ ~Supplied("-s") /\ ~Supplied("-r") /\ ~Supplied("-h")
    /\ parseError = "argparse"
    /\ exit_code = 2

\* C4: when the filename derived from the source URL is empty, download_file
\* fails with the filename-derivation error and no network request is ever
\* issued.
C4_EmptyFilenameNoNetwork ==
    /\ (target_address = <<>> \/ Last(target_address) = "/") =>
          /\ networkRequests = 0
          /\ pc \notin {"urlopen", "open_file", "read_block"}
          /\ filename \in {Unset, <<>>}
    /\ filename = <<>> =>
          /\ networkRequests = 0
          /\ raisedExc = Exc("ValueError", 0)
          /\ caughtBy = "download_file"
          /\ output = <<"value_error">>
          /\ pc \in {"handler_returned", "exited"}

C4_Witness ==
    /\ target_address = Scheme \o <<"a", "/">>
    /\ filename = <<>>
    /\ caughtBy = "download_file"
    /\ pc = "exited"

\* urlsplit(u).path: what follows the host (for a URL without a scheme, the
\* whole string), up to the first "?" or "#".
RECURSIVE PathEnd(_, _)
PathEnd(u, i) ==
    IF i > Len(u) THEN i
    ELSE IF u[i] \in {"?", "#"} THEN i
    ELSE PathEnd(u, i + 1)

UrlPath(u) ==
    LET from == IF HasScheme(u) THEN HostEnd(u, 4) ELSE 1
    IN SubSeq(u, from, PathEnd(u, from) - 1)

\* The final segment of a path: what follows its last "/".
FinalSegment(path) == SubSeq(path, LastSlash(path, Len(path)) + 1, Len(path))

\* C5: the output filename is the final non-empty segment of the URL's path
\* component (not of the whole URL string), and Receive fails with the
\* filename-derivation error when the path has no such segment. Stated for
\* the URLs that have a scheme and a host.
C5_Original ==
    ( /\ filename # Unset
      /\ HasScheme(target_address)
      /\ UrlHost(target_address) # <<>> ) =>
        LET seg == FinalSegment(UrlPath(target_address)) IN
        IF seg = <<>>
        THEN /\ filename = <<>>
             /\ networkRequests = 0
             /\ pc \notin {"urlopen", "open_file", "read_block"}
        ELSE filename = seg

\* C6: every failure raised inside start_server or download_file is caught
\* inside that handler, which prints one line and returns to main.
C6_Original ==
    (raisedExc # NoExc /\ raisedExc.cls # "KeyboardInterrupt") =>
        /\ caughtBy \in Handlers
        /\ pc \in {"handler_returned", "exited"}
        /\ exit_code \in {NoExit, 0}

\* C7: the destination file is created or overwritten only after the full
\* response body has been received; when the transfer fails or is
\* interrupted, the destination holds its previous content or does not
\* exist, never a partial body.
C7_Original ==
    /\ fileContent # prevContent => bodyLen > 0 /\ received = bodyLen
    /\ (raisedExc # NoExc /\ pc \in {"handler_returned", "exited"}) =>
          fileContent \in {prevContent, Absent}

\* C8: the listener is bound to the loopback address when localhost-only
\* was requested and to the wildcard address otherwise.
Loopback == {"localhost", "127.0.0.1"}
C8_BoundAddress ==
    boundHost # "none" =>
        /\ Supplied("-L") => boundHost \in Loopback
        /\ ~Supplied("-L") => boundHost = "0.0.0.0"

C8_Witness ==
    /\ Supplied("-L")
    /\ pc = "serve_forever"
    /\ boundHost = "localhost"

\* C9: a user interrupt arriving while a handler runs (start-up, local
\* address discovery, serving, download) is caught, prints the termination
\* message and ends the process with status 0, never as a failure.
C9_InterruptExitsZero ==
    interruptedAt # "none" =>
        /\ pc = "exited"
        /\ exit_code = 0
        /\ raisedExc = KeyboardInterrupt
        /\ caughtBy = "main"
        /\ Last(output) = "terminated_by_user"
        /\ \A i \in DOMAIN output : output[i] # "unexpected_error"

C9_Witness ==
    /\ interruptedAt = "get_local_ip"
    /\ pc = "exited"
    /\ exit_code = 0

\* C10: when a handler catches and reports a failure itself, main returns
\* and the process ends with status 0; status 1 is reached only through an
\* argument-parsing failure or an exception that escapes the handler.
C10_CaughtFailureExitsZero ==
    /\ caughtBy \in Handlers =>
          /\ raisedExc # NoExc
          /\ exit_code \in {NoExit, 0}
          /\ pc = "exited" => exit_code = 0
          /\ pc \in {"handler_returned", "exited"}
    /\ exit_code = 1 =>
          \/ parseError # "none"
          \/ caughtBy = "main" /\ raisedExc # NoExc

C10_Witness ==
    /\ caughtBy = "start_server"
    /\ raisedExc = Exc("OSError", 98)
    /\ Last(output) = "port_in_use"
    /\ pc = "exited"
    /\ exit_code = 0

====
